---- MODULE Spec2Model ----
(***************************************************************************)
(* Placement registry of satellite/overlay/placement.go:                   *)
(* ConfigurablePlacementRule maps placement ids to node filters; rules are *)
(* seeded (NewPlacementRules, AddLegacyStaticRules), loaded from a         *)
(* definition string (Set, AddPlacementFromString), registered directly    *)
(* (AddPlacementRule) and read (CreateFilters, String).                    *)
(*                                                                         *)
(* Strings are sequences of one-character strings, so indexing, slicing    *)
(* and case folding are computed.  A call ends "ok", "error" (an error is  *)
(* returned) or "panic" (a Go run-time panic unwinds the call).            *)
(***************************************************************************)
EXTENDS Integers, Sequences, FiniteSets, TLC

VARIABLES
    placements,  \* d.placements: id -> filter (its DOMAIN is the registered ids)
    allocated,   \* FALSE while d.placements is the nil map of a zero-value struct
    op,          \* the operation that ran last
    result,      \* how it ended: "ok", "error" or "panic"
    ret,         \* the filter returned by the last CreateFilters
    out,         \* the string returned by the last String, as its parts
    pre,         \* d.placements when the last operation started
    arg,         \* the id argument of the last operation
    defs,        \* the definition string of the last load, split at ';'
    stop,        \* the entry at which the last load stopped, 0 if it ran through
    calls,       \* mutating calls made so far
    expr,        \* the expression under evaluation (expression runs)
    val,         \* the outcome of its evaluation
    txs,         \* table coinpayments_transactions: id -> status
    intents,     \* table stripecoinpayments_apply_balance_intents: tx_id -> state
    payOp,       \* the operation of the payment store that ran last
    payResult,   \* what it returned
    payId,       \* the transaction id Insert or Consume was given
    payApplies,  \* the applies list Update was given
    successes    \* per transaction id, the Consume calls that returned nil

registryVars == <<placements, allocated, op, result, ret, out, pre, arg, defs,
                  stop, calls, expr, val>>
paymentVars == <<txs, intents, payOp, payResult, payId, payApplies, successes>>
vars == <<registryVars, paymentVars>>

-----------------------------------------------------------------------------
(* Bounds *)

MaxCalls == 2
MaxEntries == 2
MaxTokens == 2

-----------------------------------------------------------------------------
(* Strings *)

Uppers == <<"A", "D", "E", "L", "N", "O", "S", "U", "X", "Y">>
Lowers == <<"a", "d", "e", "l", "n", "o", "s", "u", "x", "y">>

ToLowerChar(c) ==
    IF \E i \in 1..Len(Uppers) : Uppers[i] = c
    THEN Lowers[CHOOSE i \in 1..Len(Uppers) : Uppers[i] = c]
    ELSE c

ToUpperChar(c) ==
    IF \E i \in 1..Len(Lowers) : Lowers[i] = c
    THEN Uppers[CHOOSE i \in 1..Len(Lowers) : Lowers[i] = c]
    ELSE c

ToLower(s) == [i \in 1..Len(s) |-> ToLowerChar(s[i])]
ToUpper(s) == [i \in 1..Len(s) |-> ToUpperChar(s[i])]

RECURSIVE SeqsUpTo(_, _)
SeqsUpTo(S, n) ==
    IF n = 0 THEN {<<>>}
    ELSE LET shorter == SeqsUpTo(S, n - 1)
         IN  shorter \cup {Append(s, x) : s \in shorter, x \in S}

-----------------------------------------------------------------------------
(* Country codes and sets (storj.io/common/storj/location) *)

None == "None"
Germany == "DE"
UnitedStates == "US"
Russia == "RU"
Belarus == "BY"
KnownCodes == {"DE", "FR", "NO", "US", "RU", "BY"}
EuCountries == {"DE", "FR"}
EeaCountriesWithoutEu == {"NO"}

CodeNames ==
    << <<"D", "E">>, <<"F", "R">>, <<"N", "O">>, <<"U", "S">>, <<"R", "U">>,
       <<"B", "Y">> >>
CodeValues == <<"DE", "FR", "NO", "US", "RU", "BY">>

ToCountryCode(s) ==
    IF \E i \in 1..Len(CodeNames) : CodeNames[i] = ToUpper(s)
    THEN CodeValues[CHOOSE i \in 1..Len(CodeNames) : CodeNames[i] = ToUpper(s)]
    ELSE None

NewSet(codes) == codes
NewFullSet == KnownCodes \cup {None}
With(set, codes) == set \cup codes
Without(set, codes) == set \ codes

-----------------------------------------------------------------------------
(* Values of the expression language and node filters.  Every value is a  *)
(* record of one shape: kind, a set and a sequence.                        *)

Value(kind, set, subs) == [kind |-> kind, set |-> set, subs |-> subs]

NilValue == Value("nil", {}, <<>>)              \* the nil interface
StringValue(s) == Value("String", {}, s)
IntValue(n) == Value("Int", {n}, <<>>)
AnyFilter == Value("Any", {}, <<>>)
ExcludeAllFilter == Value("ExcludeAll", {}, <<>>)
NewCountryFilter(set) == Value("Country", set, <<>>)
NodeFilters(members) == Value("NodeFilters", {}, members)
NewExcludeFilter(f) == Value("Exclude", {}, <<f>>)

FilterKinds == {"Any", "ExcludeAll", "Country", "NodeFilters", "Exclude"}

\* the dynamic type of v implements nodeselection.NodeFilter
IsNodeFilter(v) == v.kind \in FilterKinds

Nodes == [country : KnownCodes \cup {None}]

RECURSIVE Match(_, _)
Match(f, node) ==
    CASE f.kind = "Any" -> TRUE
      [] f.kind = "ExcludeAll" -> FALSE
      [] f.kind = "Country" -> node.country \in f.set
      [] f.kind = "NodeFilters" ->
            \A i \in 1..Len(f.subs) : Match(f.subs[i], node)
      [] f.kind = "Exclude" -> ~Match(f.subs[1], node)
      [] OTHER -> FALSE

\* a filter Match can be called on: not nil, and no nil member inside
RECURSIVE ValidFilter(_)
ValidFilter(f) ==
    /\ IsNodeFilter(f)
    /\ \A i \in 1..Len(f.subs) : ValidFilter(f.subs[i])

-----------------------------------------------------------------------------
(* The functions AddPlacementFromString hands to the evaluator (env) *)

Outcome(st, v) == [st |-> st, val |-> v]

tAll == <<"a", "l", "l">>
tStar == <<"*">>
tAny == <<"a", "n", "y">>
tNone == <<"n", "o", "n", "e">>
tEu == <<"e", "u">>
tEea == <<"e", "e", "a">>

\* apply: With, or Without once the token started with '!'
Apply(negated, modified, code) ==
    IF negated THEN Without(modified, code) ELSE With(modified, code)

\* one round of the loop over countries: [st, set]
CountryToken(set, country) ==
    IF Len(country) = 0
    THEN [st |-> "panic", set |-> set]          \* country[0] is out of range
    ELSE LET negated == country[1] = "!"
             name == IF negated THEN Tail(country) ELSE country
             lower == ToLower(name)
         IN  CASE lower \in {tAll, tStar, tAny} ->
                    [st |-> "ok", set |-> NewFullSet]
               [] lower = tNone ->
                    [st |-> "ok", set |-> Apply(negated, set, {None})]
               [] lower = tEu ->
                    [st |-> "ok", set |-> Apply(negated, set, EuCountries)]
               [] lower = tEea ->
                    [st |-> "ok",
                     set |-> Apply(negated, Apply(negated, set, EuCountries),
                                   EeaCountriesWithoutEu)]
               [] OTHER ->
                    IF ToCountryCode(name) = None
                    THEN [st |-> "error", set |-> set]
                    ELSE [st |-> "ok",
                          set |-> Apply(negated, set, {ToCountryCode(name)})]

RECURSIVE CountryLoop(_, _)
CountryLoop(set, countries) ==
    IF countries = <<>>
    THEN [st |-> "ok", set |-> set]
    ELSE LET r == CountryToken(set, Head(countries))
         IN  IF r.st = "ok" THEN CountryLoop(r.set, Tail(countries)) ELSE r

\* env["country"] with the set starting from every country
CountryFromFullSet(countries) ==
    LET r == CountryLoop(NewFullSet, countries)
    IN  IF r.st = "ok"
        THEN Outcome("ok", NodeFilters(<<NewCountryFilter(r.set)>>))
        ELSE Outcome(r.st, NilValue)

\* env["country"]
Country(countries) ==
    LET r == CountryLoop({}, countries)
    IN  IF r.st = "ok"
        THEN Outcome("ok", NodeFilters(<<NewCountryFilter(r.set)>>))
        ELSE Outcome(r.st, NilValue)

\* storj.PlacementConstraint(n): conversion to uint16
PlacementConstraint(n) == n % (2 ^ 16)

\* env["placement"]: the map entry, nil when there is none
Placement(pl, ix) ==
    IF PlacementConstraint(ix) \in DOMAIN pl
    THEN pl[PlacementConstraint(ix)]
    ELSE NilValue

RECURSIVE Concat(_)
Concat(filters) ==
    IF filters = <<>> THEN <<>>
    ELSE Head(filters).subs \o Concat(Tail(filters))

\* env["all"]
All(filters) == Outcome("ok", NodeFilters(Concat(filters)))

\* env[mito.OpAnd] appending the members of its operands, as env["all"] does
OpAndFlattening(a, b) ==
    IF ~IsNodeFilter(a) \/ ~IsNodeFilter(b)
    THEN Outcome("error", NilValue)
    ELSE Outcome("ok", NodeFilters(
             (IF a.kind = "NodeFilters" THEN a.subs ELSE <<a>>) \o
             (IF b.kind = "NodeFilters" THEN b.subs ELSE <<b>>)))

\* env[mito.OpAnd]
OpAnd(a, b) ==
    IF ~IsNodeFilter(a) \/ ~IsNodeFilter(b)
    THEN Outcome("error", NilValue)
    ELSE Outcome("ok", NodeFilters(<<a, b>>))

\* env["exclude"]
Exclude(filter) == Outcome("ok", NewExcludeFilter(filter))

\* env["empty"]
Empty == Outcome("ok", StringValue(<<>>))

-----------------------------------------------------------------------------
(* Expressions and their evaluation (mito.Eval over env) *)

Expr(fn, text, ix, args) == [fn |-> fn, text |-> text, ix |-> ix, args |-> args]
Str(s) == Expr("str", s, 0, <<>>)
Num(n) == Expr("int", <<>>, n, <<>>)
Call(fn, args) == Expr(fn, <<>>, 0, args)

RECURSIVE Eval(_, _)
Eval(e, pl) ==
    LET a == [i \in 1..Len(e.args) |-> Eval(e.args[i], pl)]
        vals == [i \in 1..Len(e.args) |-> a[i].val]
        failed == {i \in 1..Len(e.args) : a[i].st # "ok"}
        first == CHOOSE i \in failed : \A j \in failed : i <= j
        Kinds(k) == \A i \in 1..Len(e.args) : vals[i].kind = k
    IN  CASE e.fn = "str" -> Outcome("ok", StringValue(e.text))
          [] e.fn = "int" -> Outcome("ok", IntValue(e.ix))
          [] failed # {} -> Outcome(a[first].st, NilValue)
          [] e.fn = "country" ->
                IF Kinds("String")
                THEN Country([i \in 1..Len(vals) |-> vals[i].subs])
                ELSE Outcome("error", NilValue)
          [] e.fn = "placement" ->
                IF Len(vals) = 1 /\ Kinds("Int")
                THEN Outcome("ok", Placement(pl, CHOOSE n \in vals[1].set : TRUE))
                ELSE Outcome("error", NilValue)
          [] e.fn = "all" ->
                IF Kinds("NodeFilters") THEN All(vals)
                ELSE Outcome("error", NilValue)
          [] e.fn = "and" ->
                IF Len(vals) = 2 THEN OpAnd(vals[1], vals[2])
                ELSE Outcome("error", NilValue)
          [] e.fn = "exclude" ->
                IF Len(vals) = 1 /\ IsNodeFilter(vals[1]) THEN Exclude(vals[1])
                ELSE Outcome("error", NilValue)
          [] e.fn = "empty" ->
                IF Len(vals) = 0 THEN Empty ELSE Outcome("error", NilValue)
          [] OTHER -> Outcome("error", NilValue)      \* no such function

-----------------------------------------------------------------------------
(* strconv.Atoi: an optional sign, then decimal digits *)

Digits == <<"0", "1", "2", "3", "4", "5", "6", "7", "8", "9">>
IsDigit(c) == \E i \in 1..Len(Digits) : Digits[i] = c
DigitValue(c) == (CHOOSE i \in 1..Len(Digits) : Digits[i] = c) - 1

RECURSIVE Decimal(_)
Decimal(s) ==
    IF s = <<>> THEN 0
    ELSE Decimal(SubSeq(s, 1, Len(s) - 1)) * Len(Digits) + DigitValue(s[Len(s)])

Atoi(s) ==
    LET signed == Len(s) > 0 /\ s[1] \in {"+", "-"}
        body == IF signed THEN Tail(s) ELSE s
    IN  IF body = <<>> \/ \E i \in 1..Len(body) : ~IsDigit(body[i])
        THEN [ok |-> FALSE, n |-> 0]
        ELSE [ok |-> TRUE,
              n |-> IF signed /\ s[1] = "-" THEN 0 - Decimal(body) ELSE Decimal(body)]

-----------------------------------------------------------------------------
(* The registry *)

EveryCountry == 0
EU == 1
EEA == 2
US == 3
DE == 4
NR == 6
HiddenMax == 9          \* String hides the ids up to this one

Put(pl, id, filter) ==
    [i \in DOMAIN pl \cup {id} |-> IF i = id THEN filter ELSE pl[i]]

EmptyMap == [i \in {} |-> NilValue]

\* NewPlacementRules: the map with the every-country rule
NewPlacementRules == Put(EmptyMap, EveryCountry, AnyFilter)

LegacyRule(id) ==
    CASE id = EEA ->
            NodeFilters(<<NewCountryFilter(
                With(NewSet(EeaCountriesWithoutEu), EuCountries))>>)
      [] id = EU -> NodeFilters(<<NewCountryFilter(NewSet(EuCountries))>>)
      [] id = US -> NodeFilters(<<NewCountryFilter(NewSet({UnitedStates}))>>)
      [] id = DE -> NodeFilters(<<NewCountryFilter(NewSet({Germany}))>>)
      [] id = NR ->
            NodeFilters(<<NewCountryFilter(
                Without(NewFullSet, {Russia, Belarus, None}))>>)

LegacyIds == {EEA, EU, US, DE, NR}

\* AddLegacyStaticRules appending the US rule to the members already there
AddLegacyStaticRulesAppending(pl) ==
    Put(Put(Put(Put(Put(pl, EEA, LegacyRule(EEA)), EU, LegacyRule(EU)),
                US, NodeFilters((IF US \in DOMAIN pl THEN pl[US].subs ELSE <<>>)
                                \o LegacyRule(US).subs)),
            DE, LegacyRule(DE)), NR, LegacyRule(NR))

\* AddLegacyStaticRules on an allocated map
AddLegacyStaticRules(pl) ==
    Put(Put(Put(Put(Put(pl, EEA, LegacyRule(EEA)), EU, LegacyRule(EU)),
                US, LegacyRule(US)), DE, LegacyRule(DE)), NR, LegacyRule(NR))

\* One entry of a definition string after Split, TrimSpace and SplitN:
\* blank (skipped), without ':' (colon = FALSE), or id text and expression.
Entry(id, e) == [blank |-> FALSE, colon |-> TRUE, id |-> id, expr |-> e]
BlankEntry == [blank |-> TRUE, colon |-> FALSE, id |-> <<>>, expr |-> Str(<<>>)]
NoColonEntry == [blank |-> FALSE, colon |-> FALSE, id |-> <<>>, expr |-> Str(<<>>)]

Loaded(st, pl, k) == [st |-> st, pl |-> pl, stop |-> k]

\* the loop body with the error of Atoi dropped: the rule goes to id.n
LoadEntryIgnoringAtoiError(pl, alloc, definition) ==
    IF ~definition.colon
    THEN [st |-> "panic", pl |-> pl]
    ELSE LET r == Eval(definition.expr, pl)
             id == Atoi(definition.id)
         IN  IF r.st # "ok" THEN [st |-> r.st, pl |-> pl]
             ELSE IF ~IsNodeFilter(r.val) THEN [st |-> "panic", pl |-> pl]
             ELSE IF ~alloc THEN [st |-> "panic", pl |-> pl]
             ELSE [st |-> "ok", pl |-> Put(pl, PlacementConstraint(id.n), r.val)]

\* the body of the loop of AddPlacementFromString for one entry that is not
\* blank: [st, pl], the map after it
LoadEntry(pl, alloc, definition) ==
    IF ~definition.colon
    THEN [st |-> "panic", pl |-> pl]                \* idDef[1] is out of range
    ELSE LET r == Eval(definition.expr, pl)
             id == Atoi(definition.id)
         IN  IF r.st # "ok" THEN [st |-> r.st, pl |-> pl]
             ELSE IF ~id.ok THEN [st |-> "error", pl |-> pl]
             ELSE IF ~IsNodeFilter(r.val)
                  THEN [st |-> "panic", pl |-> pl]  \* val.(NodeFilter) fails
             ELSE IF ~alloc
                  THEN [st |-> "panic", pl |-> pl]  \* assignment to a nil map
             ELSE [st |-> "ok", pl |-> Put(pl, PlacementConstraint(id.n), r.val)]

RECURSIVE LoadFrom(_, _, _, _)
LoadFrom(pl, alloc, definitions, k) ==
    IF k > Len(definitions) THEN Loaded("ok", pl, 0)
    ELSE IF definitions[k].blank THEN LoadFrom(pl, alloc, definitions, k + 1)
    ELSE LET r == LoadEntry(pl, alloc, definitions[k])
         IN  IF r.st = "ok" THEN LoadFrom(r.pl, alloc, definitions, k + 1)
             ELSE Loaded(r.st, r.pl, k)

\* AddPlacementFromString: [st, pl, stop]
AddPlacementFromString(pl, alloc, definitions) ==
    LoadFrom(pl, alloc, definitions, 1)

\* CreateFilters whose default is the empty list of filters
CreateFiltersEmptyDefault(pl, constraint) ==
    IF constraint \in DOMAIN pl THEN pl[constraint]
    ELSE NodeFilters(<<>>)

\* CreateFilters
CreateFilters(pl, constraint) ==
    IF constraint \in DOMAIN pl THEN pl[constraint]
    ELSE NodeFilters(<<ExcludeAllFilter>>)

\* the map after CreateFilters with the default stored under an absent id
CreateFiltersMapStoringDefault(pl, constraint) ==
    IF constraint \in DOMAIN pl THEN pl
    ELSE Put(pl, constraint, NodeFilters(<<ExcludeAllFilter>>))

\* the map after CreateFilters: the method only reads it
CreateFiltersMap(pl, constraint) == pl

\* String: the parts in the order the map iteration gave, joined by ";"
Part(id, filter) == [sep |-> FALSE, id |-> id, f |-> filter]
Separator == [sep |-> TRUE, id |-> 0, f |-> NilValue]

\* String without the test that hides the internal rules
ListedAlways(id) == TRUE

Listed(id) == id > HiddenMax

RECURSIVE Join(_)
Join(parts) ==
    IF Len(parts) <= 1 THEN parts
    ELSE <<Head(parts), Separator>> \o Join(Tail(parts))

Orders(S) ==
    {o \in [1..Cardinality(S) -> S] : \A i, j \in DOMAIN o : i # j => o[i] # o[j]}

ListedIds(pl) == {id \in DOMAIN pl : Listed(id)}

StringOf(pl, order) ==
    Join([i \in 1..Len(order) |-> Part(order[i], pl[order[i]])])

-----------------------------------------------------------------------------
(* Inputs *)

tUs == <<"u", "s">>
tDe == <<"d", "e">>
tXx == <<"x", "x">>
Not(t) == <<"!">> \o t

CountryOf(tokens) == Call("country", [i \in 1..Len(tokens) |-> Str(tokens[i])])
PlacementOf(n) == Call("placement", <<Num(n)>>)
And(a, b) == Call("and", <<a, b>>)
AllOf(a, b, c) == Call("all", <<a, b, c>>)

id10 == <<"1", "0">>
id11 == <<"1", "1">>
id12 == <<"1", "2">>
idUs == <<"3">>
idAbc == <<"a", "b", "c">>
idWide == <<"6", "5", "5", "4", "6">>      \* 65546 = 2^16 + 10
idMinus == <<"-", "1">>

\* definition strings of the call sequences
SampleDefinitions ==
    { <<Entry(id10, CountryOf(<<tUs>>))>>,
      <<Entry(id11, PlacementOf(10)), Entry(id10, CountryOf(<<tDe>>))>>,
      <<Entry(id10, CountryOf(<<tDe>>)), Entry(idAbc, CountryOf(<<tUs>>)),
        Entry(id11, CountryOf(<<tUs>>))>>,
      <<Entry(idUs, CountryOf(<<tDe>>)), BlankEntry>>,
      <<Entry(id11, PlacementOf(US))>>,
      <<Entry(idWide, CountryOf(<<tDe>>))>> }

SampleIds == {US, 10}
SampleFilters == {NilValue, AnyFilter, NodeFilters(<<NewCountryFilter({"FR"})>>)}
LookupIds == {EveryCountry, US, 5, 10, 11, 999}

\* entries of the single-load runs
Entries ==
    { Entry(id10, CountryOf(<<tUs>>)),
      Entry(id11, PlacementOf(10)),
      Entry(id12, And(PlacementOf(10), CountryOf(<<tDe>>))),
      Entry(id12, And(PlacementOf(US), CountryOf(<<tUs>>))),
      Entry(idAbc, CountryOf(<<tUs>>)),
      NoColonEntry,
      BlankEntry,
      Entry(id12, Call("foo", <<>>)),
      Entry(id12, Call("empty", <<>>)),
      Entry(id12, CountryOf(<<tXx>>)),
      Entry(id12, Call("country", <<Num(1)>>)),
      Entry(idUs, CountryOf(<<tDe>>)),
      Entry(idWide, CountryOf(<<tDe>>)),
      Entry(idMinus, CountryOf(<<tDe>>)) }

Definitions == SeqsUpTo(Entries, MaxEntries) \ {<<>>}

-----------------------------------------------------------------------------
(* The payment store of satellite/satellitedb/coinpaymentstxs.go: the rows  *)
(* of the transactions table and of the apply-balance intents table.        *)

applyBalanceIntentStateUnapplied == 0
applyBalanceIntentStateConsumed == 1

TxIds == {"tx1", "tx2"}
Statuses == {"pending", "completed"}
NoRows == [id \in {} |-> 0]

\* the rows after the loop over updates: a row that exists gets the status
UpdateRows(rows, updates) ==
    [id \in DOMAIN rows |-> IF id \in DOMAIN updates THEN updates[id] ELSE rows[id]]

\* the intents after INSERT ... ON CONFLICT DO UPDATE for each id of applies
UpdateIntentsResetting(ints, applies) ==
    [id \in DOMAIN ints \cup applies |->
        IF id \in applies THEN applyBalanceIntentStateUnapplied ELSE ints[id]]

\* the intents after INSERT ... ON CONFLICT DO NOTHING for each id of applies
UpdateIntents(ints, applies) ==
    [id \in DOMAIN ints \cup applies |->
        IF id \in DOMAIN ints THEN ints[id] ELSE applyBalanceIntentStateUnapplied]

\* Consume: the query's intent_exists and intent_consumed, and the error
Consume(ints, id) ==
    LET exists == id \in DOMAIN ints
        consumed == exists /\ ints[id] = applyBalanceIntentStateUnapplied
    IN  IF ~exists THEN [err |-> "no apply balance intent", ints |-> ints]
        ELSE IF ~consumed THEN [err |-> "ErrTransactionConsumed", ints |-> ints]
        ELSE [err |-> "nil",
              ints |-> [ints EXCEPT ![id] = applyBalanceIntentStateConsumed]]

PaymentsIdle ==
    /\ txs = NoRows /\ intents = NoRows
    /\ payOp = "init" /\ payResult = "nil" /\ payId = "" /\ payApplies = {}
    /\ successes = [id \in TxIds |-> 0]

PayObserve(o, r, id, applies) ==
    /\ payOp' = o
    /\ payResult' = r
    /\ payId' = id
    /\ payApplies' = applies
    /\ UNCHANGED registryVars

\* Insert: a new transaction row; a second row with the id is refused
InsertCall(id, status) ==
    /\ txs' = IF id \in DOMAIN txs THEN txs
              ELSE [i \in DOMAIN txs \cup {id} |-> IF i = id THEN status ELSE txs[i]]
    /\ UNCHANGED <<intents, successes>>
    /\ PayObserve("Insert", IF id \in DOMAIN txs THEN "error" ELSE "nil", id, {})

\* Update: nothing without updates; else one database transaction, which
\* commits both loops or (commit = FALSE: a statement failed) nothing
UpdateCall(updates, applies, commit) ==
    /\ IF DOMAIN updates = {} \/ ~commit
       THEN UNCHANGED <<txs, intents>>
       ELSE /\ txs' = UpdateRows(txs, updates)
            /\ intents' = UpdateIntents(intents, applies)
    /\ UNCHANGED successes
    /\ PayObserve("Update", IF DOMAIN updates = {} \/ commit THEN "nil" ELSE "error",
                  "", applies)

ConsumeCall(id) ==
    LET r == Consume(intents, id)
    IN  /\ intents' = r.ints
        /\ successes' = IF r.err = "nil"
                        THEN [successes EXCEPT ![id] = successes[id] + 1]
                        ELSE successes
        /\ UNCHANGED txs
        /\ PayObserve("Consume", r.err, id, {})

-----------------------------------------------------------------------------
(* Operations *)

Observe(o, r, f, s, a, d, k) ==
    /\ op' = o
    /\ result' = r
    /\ ret' = f
    /\ out' = s
    /\ pre' = placements
    /\ arg' = a
    /\ defs' = d
    /\ stop' = k
    /\ UNCHANGED paymentVars

Mutating ==
    /\ calls < MaxCalls
    /\ calls' = calls + 1
    /\ UNCHANGED <<expr, val>>

NewPlacementRulesCall ==
    /\ Mutating
    /\ placements' = NewPlacementRules
    /\ allocated' = TRUE
    /\ Observe("NewPlacementRules", "ok", NilValue, <<>>, 0, <<>>, 0)

AddLegacyStaticRulesCall ==
    /\ Mutating
    /\ placements' = IF allocated THEN AddLegacyStaticRules(placements)
                     ELSE placements       \* assignment to a nil map panics
    /\ UNCHANGED allocated
    /\ Observe("AddLegacyStaticRules", IF allocated THEN "ok" ELSE "panic",
               NilValue, <<>>, 0, <<>>, 0)

AddPlacementRuleCall(id, filter) ==
    /\ Mutating
    /\ placements' = IF allocated THEN Put(placements, id, filter) ELSE placements
    /\ UNCHANGED allocated
    /\ Observe("AddPlacementRule", IF allocated THEN "ok" ELSE "panic",
               filter, <<>>, id, <<>>, 0)

AddPlacementFromStringCall(s) ==
    LET r == AddPlacementFromString(placements, allocated, s)
    IN  /\ placements' = r.pl
        /\ UNCHANGED allocated
        /\ Observe("AddPlacementFromString", r.st, NilValue, <<>>, 0, s, r.stop)

\* Set without the call of AddLegacyStaticRules
SetCallWithoutLegacyRules(s) ==
    LET r == AddPlacementFromString(
                 IF allocated THEN placements ELSE NewPlacementRules, TRUE, s)
    IN  /\ placements' = r.pl
        /\ allocated' = TRUE
        /\ Observe("Set", r.st, NilValue, <<>>, 0, s, r.stop)

\* Set: allocate the map if needed, the legacy rules, then the load
SetCall(s) ==
    LET seeded == AddLegacyStaticRules(
                      IF allocated THEN placements ELSE NewPlacementRules)
        r == AddPlacementFromString(seeded, TRUE, s)
    IN  /\ placements' = r.pl
        /\ allocated' = TRUE
        /\ Observe("Set", r.st, NilValue, <<>>, 0, s, r.stop)

CreateFiltersCall(id) ==
    /\ placements' = CreateFiltersMap(placements, id)
    /\ UNCHANGED <<allocated, calls, expr, val>>
    /\ Observe("CreateFilters", "ok", CreateFilters(placements, id), <<>>, id,
               <<>>, 0)

StringCall(order) ==
    /\ UNCHANGED <<placements, allocated, calls, expr, val>>
    /\ Observe("String", "ok", NilValue, StringOf(placements, order), 0, <<>>, 0)

Idle ==
    /\ op = "init" /\ result = "ok" /\ ret = NilValue /\ out = <<>>
    /\ pre = EmptyMap /\ arg = 0 /\ defs = <<>> /\ stop = 0 /\ calls = 0
    /\ expr = Str(<<>>) /\ val = Outcome("ok", NilValue)
    /\ PaymentsIdle

\* a zero-value ConfigurablePlacementRule (a flag value) or NewPlacementRules()
Init ==
    /\ allocated \in BOOLEAN
    /\ placements = IF allocated THEN NewPlacementRules ELSE EmptyMap
    /\ Idle

AddPlacementRuleStep ==
    \E id \in SampleIds, filter \in SampleFilters : AddPlacementRuleCall(id, filter)

AddPlacementFromStringStep ==
    \E s \in SampleDefinitions : Mutating /\ AddPlacementFromStringCall(s)

SetStep == \E s \in SampleDefinitions : Mutating /\ SetCall(s)

CreateFiltersStep == \E id \in LookupIds : CreateFiltersCall(id)

StringStep == \E order \in Orders(ListedIds(placements)) : StringCall(order)

Next ==
    \/ NewPlacementRulesCall
    \/ AddLegacyStaticRulesCall
    \/ AddPlacementRuleStep
    \/ AddPlacementFromStringStep
    \/ SetStep
    \/ CreateFiltersStep
    \/ StringStep

Spec == Init /\ [][Next]_vars

-----------------------------------------------------------------------------
(* Claims on the call sequences (Spec) *)

\* C1: CreateFilters on an id that is not registered returns, without
\* failing, a filter that matches no node, whatever the node's country.
C1_UnregisteredLookupMatchesNoNode ==
    (op = "CreateFilters" /\ arg \notin DOMAIN placements) =>
        /\ result = "ok"
        /\ ValidFilter(ret)
        /\ \A node \in Nodes : ~Match(ret, node)

\* C1 witness: after seeding and a load, an id outside the registry is looked up
C1_Witness ==
    /\ op = "CreateFilters"
    /\ arg = 999
    /\ calls = MaxCalls
    /\ {US, 10} \subseteq DOMAIN placements
    /\ arg \notin DOMAIN placements

\* C2: CreateFilters of every id, registered or not, returns a valid non-nil
\* filter and never an error, in every reachable state of the registry.
C2_LookupAlwaysValidFilter ==
    op = "CreateFilters" => (result = "ok" /\ ValidFilter(ret))

\* C10: String lists exactly the registered ids greater than 9, each once as
\* id:description, joined by ';' (so it is empty when only ids 0..9 exist).
C10_StringListsUserIds ==
    op = "String" =>
        LET user == {id \in DOMAIN placements : id > HiddenMax}
            n == Cardinality(user)
        IN  /\ Len(out) = IF n = 0 THEN 0 ELSE 2 * n - 1
            /\ \A i \in 1..Len(out) :
                   IF i % 2 = 1
                   THEN /\ ~out[i].sep
                        /\ out[i].id \in user
                        /\ out[i].f = placements[out[i].id]
                   ELSE out[i].sep
            /\ \A id \in user :
                   Cardinality({i \in 1..Len(out) : ~out[i].sep /\ out[i].id = id}) = 1

\* C10 witness: built-in ids and two user ids are registered, String ran
C10_Witness ==
    /\ op = "String"
    /\ LegacyIds \cup {EveryCountry, 10, 11} \subseteq DOMAIN placements
    /\ Len(out) = 3

-----------------------------------------------------------------------------
(* Single loads: one Set or AddPlacementFromString of any definition string *)
(* of up to MaxEntries entries, on a registry as construction leaves it.    *)

SeededRegistries ==
    { NewPlacementRules,
      AddLegacyStaticRules(NewPlacementRules),
      Put(AddLegacyStaticRules(NewPlacementRules), 10,
          NodeFilters(<<NewCountryFilter({"FR"})>>)) }

InitLoad ==
    /\ allocated = TRUE
    /\ placements \in SeededRegistries
    /\ Idle

LoadStep ==
    \E s \in Definitions : calls = 0 /\ Mutating /\ AddPlacementFromStringCall(s)

SetLoadStep == \E s \in Definitions : calls = 0 /\ Mutating /\ SetCall(s)

NextLoad ==
    \/ LoadStep
    \/ SetLoadStep
    \/ CreateFiltersStep

SpecLoad == InitLoad /\ [][NextLoad]_vars

IsLoad == op \in {"AddPlacementFromString", "Set"}

\* the registry the entries of the last load were applied to
LoadBase == IF op = "Set" THEN AddLegacyStaticRules(pre) ELSE pre

\* C3: placement(id) of an id that is not registered at that moment (a forward
\* reference) evaluates to the deny-all default, so its entry is registered
\* and the load goes on without an error.
C3_ForwardReferenceIsDenyAll ==
    (/\ IsLoad
     /\ defs[1] = Entry(id11, PlacementOf(10))
     /\ 10 \notin DOMAIN LoadBase) =>
        /\ stop # 1
        /\ Len(defs) = 1 =>
              /\ result = "ok"
              /\ 11 \in DOMAIN placements
              /\ ValidFilter(placements[11])
              /\ \A node \in Nodes : ~Match(placements[11], node)

\* C6: a load commits entry by entry.  When it stops at entry k, the registry
\* is the one the entries before k produced, so the failing entry and those
\* after it change nothing and no earlier mapping is lost; a non-integer id
\* makes the call return an error.
C6_LoadCommitsEntryByEntry ==
    (IsLoad /\ stop > 0) =>
        LET before == AddPlacementFromString(LoadBase, TRUE, SubSeq(defs, 1, stop - 1))
            failing == defs[stop]
        IN  /\ result \in {"error", "panic"}
            /\ before.st = "ok"
            /\ placements = before.pl
            /\ DOMAIN LoadBase \subseteq DOMAIN placements
            /\ \A k \in 1..(stop - 1) :
                   (~defs[k].blank /\ Atoi(defs[k].id).ok) =>
                       PlacementConstraint(Atoi(defs[k].id).n) \in DOMAIN placements
            /\ (/\ failing.colon
                /\ ~Atoi(failing.id).ok
                /\ Eval(failing.expr, placements).st = "ok") => result = "error"

\* no entry with a non-integer id is passed over: the load stops there
C6_BadIdStopsLoad ==
    IsLoad =>
        \A k \in 1..Len(defs) :
            (defs[k].colon /\ ~Atoi(defs[k].id).ok) => (stop > 0 /\ stop <= k)

BadEntries ==
    { NoColonEntry,
      Entry(idAbc, CountryOf(<<tUs>>)),
      Entry(id12, Call("foo", <<>>)),
      Entry(id12, Call("country", <<Num(1)>>)),
      Entry(id12, CountryOf(<<tXx>>)),
      Entry(id12, Call("empty", <<>>)) }

\* C7: every kind of bad entry (no ':', non-integer id, unknown function,
\* wrong argument type, invalid country code, result that is no filter) makes
\* the load return an error: none crashes the load or is accepted.
C7_BadEntryReturnsError ==
    IsLoad =>
        \A k \in 1..Len(defs) :
            (defs[k] \in BadEntries /\ (stop = 0 \/ stop >= k)) =>
                (stop = k /\ result = "error")

-----------------------------------------------------------------------------
(* Expressions: one expression is evaluated, and loaded as entry 11 *)

ValidNames == {tUs, tDe, ToUpper(tUs), tAll, tStar, tAny, tNone, tEu, tEea}
ValidTokens == ValidNames \cup {Not(t) : t \in ValidNames}
InvalidTokens == {<<>>, <<"!">>, tXx, Not(tXx)}
Tokens == ValidTokens \cup InvalidTokens

CountryExprs == {CountryOf(tokens) : tokens \in SeqsUpTo(Tokens, MaxTokens)}

Atoms == {CountryOf(<<tUs>>), CountryOf(<<tDe>>), CountryOf(<<tEu>>)}
LeftExprs == {And(And(a, b), c) : a, b, c \in Atoms}
RightExprs == {And(a, And(b, c)) : a, b, c \in Atoms}
AllExprs == {AllOf(a, b, c) : a, b, c \in Atoms}

Expressions == CountryExprs \cup LeftExprs \cup RightExprs \cup AllExprs

InitEval ==
    /\ allocated = TRUE
    /\ placements = NewPlacementRules
    /\ op = "init" /\ result = "ok" /\ ret = NilValue /\ out = <<>>
    /\ pre = EmptyMap /\ arg = 0 /\ defs = <<>> /\ stop = 0 /\ calls = 0
    /\ expr \in Expressions
    /\ val = Outcome("ok", NilValue)
    /\ PaymentsIdle

EvalCall ==
    /\ val' = Eval(expr, placements)
    /\ UNCHANGED <<placements, allocated, calls, expr>>
    /\ Observe("Eval", "ok", NilValue, <<>>, 0, <<>>, 0)

LoadExprStep ==
    /\ calls = 0
    /\ Mutating
    /\ AddPlacementFromStringCall(<<Entry(id11, expr)>>)

NextEval ==
    \/ EvalCall
    \/ LoadExprStep
    \/ CreateFiltersStep

SpecEval == InitEval /\ [][NextEval]_vars

TokensOf(e) == [i \in 1..Len(e.args) |-> e.args[i].text]

NotUs == CountryOf(<<Not(tUs)>>)

\* C4: country("!us") matches every valid country code except US and not
\* None; after loading 11:country("!us"), CreateFilters(11) rejects a US node
\* and accepts a DE node.
C4_NotUsMatchesAllButUs ==
    /\ (op = "Eval" /\ expr = NotUs) =>
           /\ val.st = "ok"
           /\ \A node \in Nodes :
                  Match(val.val, node) <=> node.country \in KnownCodes \ {"US"}
    /\ (op = "CreateFilters" /\ expr = NotUs /\ arg = 11 /\ 11 \in DOMAIN placements) =>
           /\ ~Match(ret, [country |-> "US"])
           /\ Match(ret, [country |-> "DE"])

\* C4 as amended: country("!us") removes US from the empty set, so its filter
\* matches no country code at all; after loading 11:country("!us"),
\* CreateFilters(11) rejects a US node and a DE node alike.
C4_NotUsMatchesNothing ==
    /\ (op = "Eval" /\ expr = NotUs) =>
           /\ val.st = "ok"
           /\ val.val = NodeFilters(<<NewCountryFilter({})>>)
           /\ \A node \in Nodes : ~Match(val.val, node)
    /\ (op = "AddPlacementFromString" /\ expr = NotUs) =>
           (result = "ok" /\ 11 \in DOMAIN placements)
    /\ (op = "CreateFilters" /\ expr = NotUs /\ arg = 11 /\ 11 \in DOMAIN placements) =>
           \A node \in Nodes : ~Match(ret, node)

\* C4 witness: 11:country("!us") was loaded and id 11 looked up
C4_Witness ==
    /\ op = "CreateFilters"
    /\ expr = NotUs
    /\ arg = 11
    /\ 11 \in DOMAIN placements
    /\ val.st = "ok"
    /\ val.val.kind = "NodeFilters"

\* C5: country(...) fails with an error, and registers nothing for its entry,
\* whenever its token list is empty or one of its tokens is no recognised
\* alias or country code (an empty token and a lone '!' included).
C5_CountryRejectsBadTokens ==
    (/\ expr \in CountryExprs
     /\ \/ TokensOf(expr) = <<>>
        \/ \E i \in 1..Len(expr.args) : TokensOf(expr)[i] \notin ValidTokens) =>
        /\ op = "Eval" => val.st = "error"
        /\ op = "AddPlacementFromString" => (result = "error" /\ placements = pre)

\* the codes a token names, and the set the claimed reading of '!' gives
NamedCodes(name) ==
    CASE ToLower(name) \in {tAll, tStar, tAny} -> KnownCodes \cup {None}
      [] ToLower(name) = tNone -> {None}
      [] ToLower(name) = tEu -> {"DE", "FR"}
      [] ToLower(name) = tEea -> {"DE", "FR", "NO"}
      [] ToUpper(name) = <<"U", "S">> -> {"US"}
      [] ToUpper(name) = <<"D", "E">> -> {"DE"}

RECURSIVE AddOrRemove(_, _)
AddOrRemove(set, tokens) ==
    IF tokens = <<>> THEN set
    ELSE LET t == Head(tokens)
         IN  AddOrRemove(IF t[1] = "!" THEN set \ NamedCodes(Tail(t))
                         ELSE set \cup NamedCodes(t),
                         Tail(tokens))

\* C8: a leading '!' turns a token from adding its codes into removing them,
\* for every kind of token (code, none, eu, eea, all/*/any), and leaves what
\* the other tokens of the call contribute as it is.
C8_NegationFlipsOnlyItsToken ==
    (/\ op = "Eval"
     /\ expr \in CountryExprs
     /\ \A i \in 1..Len(expr.args) : TokensOf(expr)[i] \in ValidTokens) =>
        /\ val.st = "ok"
        /\ val.val = NodeFilters(<<NewCountryFilter(AddOrRemove({}, TokensOf(expr)))>>)

IsConjunction(f) == f.kind = "NodeFilters"
Nested(f) == \E i \in 1..Len(f.subs) : IsConjunction(f.subs[i])

\* the operands A, B, C of a conjunction expression
Operands(e) ==
    CASE e \in LeftExprs -> <<e.args[1].args[1], e.args[1].args[2], e.args[2]>>
      [] e \in RightExprs -> <<e.args[1], e.args[2].args[1], e.args[2].args[2]>>
      [] e \in AllExprs -> e.args

OperandValue(e, i) == Eval(Operands(e)[i], placements).val

Flat(e) ==
    NodeFilters(OperandValue(e, 1).subs \o OperandValue(e, 2).subs
                \o OperandValue(e, 3).subs)

ConjExprs == LeftExprs \cup RightExprs \cup AllExprs

-----------------------------------------------------------------------------
(* Further claims on the call sequences (Spec) *)

\* C11: AddLegacyStaticRules is idempotent (a second call in a row leaves the
\* registry as the first left it) and changes no id but EEA, EU, US, DE, NR.
C11_LegacyRulesIdempotent ==
    /\ [](op = "AddLegacyStaticRules" =>
             /\ \A id \in DOMAIN pre \ LegacyIds :
                    id \in DOMAIN placements /\ placements[id] = pre[id]
             /\ DOMAIN placements \subseteq DOMAIN pre \cup LegacyIds
             /\ result = "ok" =>
                    \A id \in LegacyIds :
                        id \in DOMAIN placements /\ placements[id] = LegacyRule(id))
    /\ [][(op = "AddLegacyStaticRules" /\ op' = "AddLegacyStaticRules")
              => placements' = placements]_vars

\* C11 witness: a second AddLegacyStaticRules ran right after a first
C11_Witness ==
    /\ op = "AddLegacyStaticRules"
    /\ result = "ok"
    /\ calls = 2
    /\ LegacyIds \subseteq DOMAIN pre
    /\ \A id \in LegacyIds : pre[id] = LegacyRule(id)
    /\ placements = pre

\* C12: CreateFilters only reads: it leaves the map as it was (an absent id is
\* not inserted), so lookups repeated or interleaved in any order on a
\* registry nobody changes return, for each id, the same filter.
C12_LookupReadsOnly ==
    /\ [](op = "CreateFilters" =>
             /\ placements = pre
             /\ arg \in DOMAIN pre => ret = pre[arg]
             /\ arg \notin DOMAIN pre =>
                    ret = NodeFilters(<<ExcludeAllFilter>>))
    /\ [][op' = "CreateFilters" =>
              /\ placements' = placements
              /\ allocated' = allocated
              /\ (op = "CreateFilters" /\ pre' = pre /\ arg' = arg) => ret' = ret]_vars

\* C12 witness: an absent id was looked up and is still absent
C12_Witness ==
    /\ op = "CreateFilters"
    /\ arg = 11
    /\ 10 \in DOMAIN placements
    /\ arg \notin DOMAIN placements
    /\ placements = pre

-----------------------------------------------------------------------------
\* the entries of d that name an id, and the ids they name
Naming(d) == {k \in 1..Len(d) : d[k].colon /\ Atoi(d[k].id).ok}
IdOf(d, k) == PlacementConstraint(Atoi(d[k].id).n)
DefinedIds(d) == {IdOf(d, k) : k \in Naming(d)}
LastNaming(d, id) ==
    CHOOSE k \in Naming(d) :
        IdOf(d, k) = id /\ \A j \in Naming(d) : IdOf(d, j) = id => j <= k

\* the registry Set loads into: allocated if it was nil, legacy rules applied
SetBase ==
    AddLegacyStaticRules(IF pre = EmptyMap THEN NewPlacementRules ELSE pre)

\* the rule the last entry of d for id evaluates to, where it stands in d
RuleFrom(d, id) ==
    Eval(d[LastNaming(d, id)].expr,
         AddPlacementFromString(SetBase, TRUE,
                                SubSeq(d, 1, LastNaming(d, id) - 1)).pl).val

\* C13: after a successful Set(s), each legacy id that s does not define maps
\* to its legacy rule whatever was stored there before, each id that s
\* defines maps to the rule from s, and every other id keeps its rule (the
\* every-country id stays registered).
C13_SetReappliesLegacyRules ==
    (op = "Set" /\ result = "ok") =>
        /\ \A id \in LegacyIds \ DefinedIds(defs) :
               id \in DOMAIN placements /\ placements[id] = LegacyRule(id)
        /\ \A id \in DefinedIds(defs) :
               id \in DOMAIN placements /\ placements[id] = RuleFrom(defs, id)
        /\ \A id \in DOMAIN pre \ (LegacyIds \cup DefinedIds(defs)) :
               id \in DOMAIN placements /\ placements[id] = pre[id]
        /\ EveryCountry \in DOMAIN placements
        /\ DOMAIN placements =
               DOMAIN pre \cup LegacyIds \cup DefinedIds(defs) \cup {EveryCountry}

\* C13 witness: AddPlacementRule had replaced the US rule; Set("11:placement(3)")
\* restored it and copied the restored rule to id 11
C13_Witness ==
    /\ op = "Set"
    /\ result = "ok"
    /\ US \in DOMAIN pre
    /\ pre[US] = AnyFilter
    /\ placements[US] = LegacyRule(US)
    /\ 11 \in DOMAIN placements
    /\ placements[11] = LegacyRule(US)

-----------------------------------------------------------------------------
\* C14: a load registers an entry only under the non-negative id equal to the
\* integer written before its ':'; an integer that is negative or beyond the
\* range of the id type is never stored under another, wrapped-around id.
C14_IdsAreNotWrapped ==
    IsLoad =>
        \A id \in DOMAIN placements :
            (id \notin DOMAIN LoadBase \/ placements[id] # LoadBase[id]) =>
                \E k \in Naming(defs) : Atoi(defs[k].id).n = id

-----------------------------------------------------------------------------
(* The payment store: any sequence of Insert, Update and Consume *)

InitPay ==
    /\ allocated = TRUE
    /\ placements = NewPlacementRules
    /\ Idle

UpdateLists == UNION {[ids -> Statuses] : ids \in SUBSET TxIds}

InsertStep == \E id \in TxIds, status \in Statuses : InsertCall(id, status)

UpdateStep ==
    \E updates \in UpdateLists, applies \in SUBSET TxIds, commit \in BOOLEAN :
        UpdateCall(updates, applies, commit)

ConsumeStep == \E id \in TxIds : ConsumeCall(id)

NextPay ==
    \/ InsertStep
    \/ UpdateStep
    \/ ConsumeStep

SpecPay == InitPay /\ [][NextPay]_vars

IsConsumed(ints, id) ==
    id \in DOMAIN ints /\ ints[id] = applyBalanceIntentStateConsumed
IsUnapplied(ints, id) ==
    id \in DOMAIN ints /\ ints[id] = applyBalanceIntentStateUnapplied

\* C15: Consume(id) succeeds at most once per transaction id: it returns an
\* error when no intent exists for id, moves the intent from unapplied to
\* consumed on its first success, returns ErrTransactionConsumed on every later
\* call, and a later Update listing id in applies never makes it unapplied again.
C15_ConsumeAtMostOnce ==
    /\ [](\A id \in TxIds :
             /\ successes[id] <= 1
             /\ successes[id] = 1 <=> IsConsumed(intents, id))
    /\ [][payOp' = "Consume" =>
              /\ payId' \notin DOMAIN intents =>
                     (payResult' \notin {"nil", "ErrTransactionConsumed"}
                      /\ intents' = intents)
              /\ IsUnapplied(intents, payId') =>
                     (/\ payResult' = "nil"
                      /\ IsConsumed(intents', payId')
                      /\ \A id \in DOMAIN intents \ {payId'} : intents'[id] = intents[id]
                      /\ DOMAIN intents' = DOMAIN intents)
              /\ IsConsumed(intents, payId') =>
                     (payResult' = "ErrTransactionConsumed" /\ intents' = intents)]_vars
    /\ [][\A id \in TxIds : IsConsumed(intents, id) => IsConsumed(intents', id)]_vars

\* C15 witness: an Update listed a consumed transaction in applies and left
\* its intent consumed
C15_Witness ==
    /\ payOp = "Update"
    /\ payResult = "nil"
    /\ "tx1" \in payApplies
    /\ successes["tx1"] = 1
    /\ IsConsumed(intents, "tx1")
    /\ "tx1" \in DOMAIN txs /\ txs["tx1"] = "completed"

====
